---- MODULE Spec2Model ----
(***************************************************************************)
(* State-machine model of the simulation layer of dissipative_structures:   *)
(*   - the two-wall thermodynamic gas (ThermodynamicsScene.tsx, both        *)
(*     revisions held by the file) and its metrics record kept by App.tsx;  *)
(*   - the boids swarm (BoidsScene.tsx);                                    *)
(*   - the Gray-Scott / BZ ping-pong steppers (BZReactionScene.tsx and the  *)
(*     two ReactionDiffusionScene revisions).                               *)
(*                                                                          *)
(* Numbers.  JavaScript numbers are modelled in fixed point: lengths and    *)
(* velocities in 1/10000 (Lu), sums of speed squared in 1/Lu^2, the slice   *)
(* "temperatures" in 1/1000000 (Micro), heat and the entropy estimate in    *)
(* 1/1000 (Milli).  A product or quotient that leaves the grid is rounded   *)
(* to the nearest grid point, ties away from zero (RoundDiv), the way a     *)
(* float operation rounds to nearest; sqrt(x)*sqrt(x) is x.                 *)
(***************************************************************************)
EXTENDS Integers, Sequences, FiniteSets, TLC

VARIABLES
    \* thermodynamic gas
    thermoParams,    \* App: [heat, isPaused, particleCount]
    simulationData,  \* App: the SimulationData record the chart and prompt read
    gasVersion,      \* which revision of ThermodynamicsScene.tsx is built (1 or 2)
    particles,       \* Particles: particlesRef.current
    frame,           \* locals of the last useFrame run of Particles
    ticks,           \* number of useFrame runs so far (model bound)
    \* boids
    boids,           \* BoidsSystem: the Boid objects, in array order
    predator,        \* predatorRef.current.position
    boidFrames,      \* number of useFrame runs so far (model bound)
    \* reaction-diffusion and BZ steppers
    rdBuild,         \* which stepper is mounted: "rdNew", "rdOld" or "bz"
    fbo,             \* contents of the render targets fbo1 and fbo2
    currentFBO,      \* the closure variable currentFBO (1 or 2)
    nextFBO,         \* the closure variable nextFBO (1 or 2)
    uTexture,        \* simulationMaterial.uniforms.uTexture (0: null)
    renderTarget,    \* the renderer's render target (0: the screen)
    displayTexture,  \* the display material's uTexture (0: null)
    rdParams,        \* App: [feed, kill]
    mouse,           \* BZSystem: mouse.current
    pointerDowns,    \* the coordinates handlePointerDown took since the last frame
    rdPc,            \* position inside the useFrame callback
    rdI,             \* the loop variable i of the callback
    rdFrames,        \* number of useFrame runs so far (model bound)
    \* App and the explanation service
    visualization,         \* App: the mounted visualization
    isModalOpen,           \* App
    explanation,           \* App: the text the modal shows
    isLoadingExplanation,  \* App
    apiKey,                \* geminiService: whether API_KEY is set
    pending,               \* calls of generateExplanation awaiting the service
    lastOutcome,           \* how the last call of generateExplanation settled
    serviceCalls,          \* number of ai.models.generateContent calls so far
    requests               \* number of handleExplain runs so far (model bound)

gasVars == <<thermoParams, simulationData, gasVersion,
            particles, frame, ticks>>

boidsVars == <<boids, predator, boidFrames>>

rdVars == <<rdBuild, fbo, currentFBO, nextFBO, uTexture, renderTarget,
           displayTexture, rdParams, mouse, pointerDowns, rdPc, rdI,
           rdFrames>>

appVars == <<visualization, isModalOpen, explanation, isLoadingExplanation,
            apiKey, pending, lastOutcome, serviceCalls, requests>>

vars == <<gasVars, boidsVars, rdVars, appVars>>

NoOutcome == [kind |-> "none", value |-> "", calls |-> 0, serviceOk |-> TRUE]

\* App showing visualization v, with the explanation modal never used
AppIdle(v) ==
    /\ visualization = v
    /\ isModalOpen = FALSE
    /\ explanation = ""
    /\ isLoadingExplanation = FALSE
    /\ apiKey = FALSE
    /\ pending = <<>>
    /\ lastOutcome = NoOutcome
    /\ serviceCalls = 0
    /\ requests = 0

\* App mounts one visualization at a time; the state of the others is idle
BoidsUnmounted ==
    /\ boids = <<>>
    /\ predator = [x |-> 0, y |-> 0, z |-> 0]
    /\ boidFrames = 0

RdUnmounted ==
    /\ rdBuild = "none"
    /\ fbo = <<>>
    /\ currentFBO = 0
    /\ nextFBO = 0
    /\ uTexture = 0
    /\ renderTarget = 0
    /\ displayTexture = 0
    /\ rdParams = [feed |-> 550, kill |-> 620]
    /\ mouse = [x |-> 0, y |-> 0]
    /\ pointerDowns = {}
    /\ rdPc = "idle"
    /\ rdI = 0
    /\ rdFrames = 0

-----------------------------------------------------------------------------
(* Fixed-point arithmetic *)

Lu == 10^4
Milli == 10^3
Micro == 10^6

\* speed squared is in 1/Lu^2; one Micro of it is this many units
EnergyPerMicro == (Lu * Lu) \div Micro

Abs(x) == IF x < 0 THEN -x ELSE x

\* Math.sign
Sign(x) == IF x > 0 THEN 1 ELSE IF x < 0 THEN -1 ELSE 0

Max(a, b) == IF a >= b THEN a ELSE b
Min(a, b) == IF a <= b THEN a ELSE b

\* a / b for b > 0, rounded to the nearest integer, ties away from zero
RoundDiv(a, b) == Sign(a) * ((Abs(a) + b \div 2) \div b)

RECURSIVE SumSeq(_)
SumSeq(s) == IF s = <<>> THEN 0 ELSE Head(s) + SumSeq(Tail(s))

-----------------------------------------------------------------------------
(* Thermodynamic gas: constants *)

SLICES == 10

\* BOX_SIZE of the built revision, in Lu
BOX_SIZE(ver) == IF ver = 1 THEN 6 * Lu ELSE 5 * Lu

halfBox(ver) == BOX_SIZE(ver) \div 2

\* heat < 0.001 is the 'Near Equilibrium' threshold, in Milli
HeatThreshold == 1

\* 0.01, the threshold of gradientStdDev (Micro) and of |entropyProduction| (Milli)
StdDevThreshold == Micro \div 100
EntropyThreshold == Milli \div 100

\* the fallbacks of tempHot (1) and tempCold (0.1) and the floor 0.1, in Micro
TempHotFallback == Micro
TempColdFallback == Micro \div 10
TempFloor == Micro \div 10

SystemStates == {"Initializing", "Near Equilibrium", "Steady State", "Chaotic"}

lengthSq(p) == p.vx * p.vx + p.vy * p.vy + p.vz * p.vz

\* Vector3.multiplyScalar(num/den) on the velocity
ScaleVelocity(p, num, den) ==
    [p EXCEPT !.vx = RoundDiv(p.vx * num, den),
              !.vy = RoundDiv(p.vy * num, den),
              !.vz = RoundDiv(p.vz * num, den)]

\* p.position.addScaledVector(p.velocity, delta * 60); dt is delta * 60
Advance(p, dt) ==
    [p EXCEPT !.px = p.px + p.vx * dt,
              !.py = p.py + p.vy * dt,
              !.pz = p.pz + p.vz * dt]

\* The hot-wall branch (position.x > 0), entered with vx already reflected.
\* Revision 1: vx += sign(vx) * heat * 0.1, then the velocity times 1.01.
\* Revision 2: vx += sign(vx) * heat.
HotWall(p, heat, ver) ==
    IF ver = 1
    THEN ScaleVelocity(
             [p EXCEPT !.vx = p.vx + Sign(p.vx) * RoundDiv(heat * Lu, 10 * Milli)],
             101, 100)
    ELSE [p EXCEPT !.vx = p.vx + Sign(p.vx) * RoundDiv(heat * Lu, Milli)]

\* Variant: a cold wall that takes nothing from the particle
ColdWall_noDamping(p, ver) == p

\* The cold-wall branch: the velocity times 0.9 (revision 1) or 0.95 (revision 2).
ColdWall(p, ver) ==
    IF ver = 1 THEN ScaleVelocity(p, 9, 10) ELSE ScaleVelocity(p, 95, 100)

\* The X walls: [p, dIn, dOut], the particle and what it adds to energyIn and
\* energyOut.
XWall(p, heat, ver) ==
    IF Abs(p.px) > halfBox(ver)
    THEN LET q == [p EXCEPT !.vx = -p.vx, !.px = Sign(p.px) * halfBox(ver)]
             oldSq == lengthSq(q)
         IN  IF q.px > 0
             THEN LET r == HotWall(q, heat, ver)
                  IN  [p |-> r, dIn |-> lengthSq(r) - oldSq, dOut |-> 0]
             ELSE LET r == ColdWall(q, ver)
                  IN  [p |-> r, dIn |-> 0, dOut |-> oldSq - lengthSq(r)]
    ELSE [p |-> p, dIn |-> 0, dOut |-> 0]

\* The Y wall: revision 1 reflects the velocity only, revision 2 also puts the
\* particle back on the wall.
YWall(p, ver) ==
    IF Abs(p.py) > halfBox(ver)
    THEN IF ver = 1
         THEN [p EXCEPT !.vy = -p.vy]
         ELSE [p EXCEPT !.vy = -p.vy, !.py = Sign(p.py) * halfBox(ver)]
    ELSE p

\* The Z wall, as the Y wall.
ZWall(p, ver) ==
    IF Abs(p.pz) > halfBox(ver)
    THEN IF ver = 1
         THEN [p EXCEPT !.vz = -p.vz]
         ELSE [p EXCEPT !.vz = -p.vz, !.pz = Sign(p.pz) * halfBox(ver)]
    ELSE p

\* One particle of the forEach: [p, dIn, dOut]
StepParticle(p, dt, heat, ver) ==
    LET x == XWall(Advance(p, dt), heat, ver)
    IN  [x EXCEPT !.p = ZWall(YWall(x.p, ver), ver)]

\* Math.floor(((p.position.x + halfBox) / BOX_SIZE) * SLICES); \div is the floor
sliceIndex(p, ver) == ((p.px + halfBox(ver)) * SLICES) \div BOX_SIZE(ver)

\* A particle is added to a slice only if 0 <= sliceIndex < SLICES.
\* Slice k of the code is element k + 1 of the sequences here.
InSlice(p, k, ver) == sliceIndex(p, ver) = k /\ k >= 0 /\ k < SLICES

sliceCounts(ps, ver) ==
    [k \in 1..SLICES |-> Cardinality({i \in 1..Len(ps) : InSlice(ps[i], k - 1, ver)})]

sliceEnergies(ps, ver) ==
    [k \in 1..SLICES |->
        SumSeq([i \in 1..Len(ps) |->
                  IF InSlice(ps[i], k - 1, ver) THEN lengthSq(ps[i]) ELSE 0])]

\* Variant: a gradient that keeps the occupied slices only
temperatureGradient_occupiedOnly(ps, ver) ==
    LET c == sliceCounts(ps, ver)
        e == sliceEnergies(ps, ver)
        all == [k \in 1..SLICES |->
                  IF c[k] > 0 THEN RoundDiv(e[k], c[k] * EnergyPerMicro) ELSE -1]
    IN  SelectSeq(all, LAMBDA t : t >= 0)

\* sliceCounts[i] > 0 ? energy / sliceCounts[i] : 0, in Micro
temperatureGradient(ps, ver) ==
    LET c == sliceCounts(ps, ver)
        e == sliceEnergies(ps, ver)
    IN  [k \in 1..SLICES |->
           IF c[k] > 0 THEN RoundDiv(e[k], c[k] * EnergyPerMicro) ELSE 0]

\* temperatureGradient[length - 1] || 1   and   temperatureGradient[0] || 0.1
tempHot(grad) ==
    IF Len(grad) = 0 \/ grad[Len(grad)] = 0 THEN TempHotFallback ELSE grad[Len(grad)]

tempCold(grad) ==
    IF Len(grad) = 0 \/ grad[1] = 0 THEN TempColdFallback ELSE grad[1]

\* energyIn / max(0.1, tempHot) - energyOut / max(0.1, tempCold), in Milli
entropyProduction_noFloor(energyIn, energyOut, grad) ==
    RoundDiv(energyIn * (Milli \div EnergyPerMicro), tempHot(grad))
    - RoundDiv(energyOut * (Milli \div EnergyPerMicro), tempCold(grad))

entropyProduction(energyIn, energyOut, grad) ==
    RoundDiv(energyIn * (Milli \div EnergyPerMicro), Max(TempFloor, tempHot(grad)))
    - RoundDiv(energyOut * (Milli \div EnergyPerMicro), Max(TempFloor, tempCold(grad)))

\* The sum of (t - mid)^2 over the gradient, counted up to cap + 1 and no
\* further: a term or a sum above the cap is cap + 1 (with the cap at
\* SLICES * 0.01^2 a difference above 4 * 0.01 is above the cap by itself).
RECURSIVE SumSqCapped(_, _, _)
SumSqCapped(s, mid, cap) ==
    IF s = <<>> THEN 0
    ELSE LET d == Abs(Head(s) - mid)
             term == IF d > 4 * StdDevThreshold THEN cap + 1
                     ELSE Min(cap + 1, d * d)
         IN  Min(cap + 1, term + SumSqCapped(Tail(s), mid, cap))

\* gradientStdDev > 0.01, that is
\* sqrt(sum((t - (tempHot + tempCold) / 2)^2) / SLICES) > 0.01,
\* decided on the squares: sum > SLICES * 0.01^2
gradientStdDevExceeds(grad) ==
    LET mid == RoundDiv(tempHot(grad) + tempCold(grad), 2)
        cap == SLICES * StdDevThreshold * StdDevThreshold
    IN  SumSqCapped(grad, mid, cap) > cap

\* Variant: the 'Steady State' test placed before the heat test
systemState_steadyFirst(heat, grad, entropy) ==
    IF gradientStdDevExceeds(grad) /\ Abs(entropy) > EntropyThreshold
    THEN "Steady State"
    ELSE IF heat < HeatThreshold THEN "Near Equilibrium" ELSE "Chaotic"

\* Variant: the 'Steady State' test made on the clamped estimate
systemState_clampedEntropy(heat, grad, entropy) ==
    IF heat < HeatThreshold THEN "Near Equilibrium"
    ELSE IF gradientStdDevExceeds(grad) /\ Max(0, entropy) > EntropyThreshold
         THEN "Steady State"
         ELSE "Chaotic"

\* let systemState = 'Chaotic'; if (heat < 0.001) ...; else if (...) ...
systemState(heat, grad, entropy) ==
    IF heat < HeatThreshold THEN "Near Equilibrium"
    ELSE IF gradientStdDevExceeds(grad) /\ Abs(entropy) > EntropyThreshold
         THEN "Steady State"
         ELSE "Chaotic"

\* Variant: the estimate emitted without Math.max(0, ...)
EmittedData_unclamped(heat, grad, entropy) ==
    [temperatureGradient |-> grad,
     entropyProduction   |-> entropy,
     systemState         |-> systemState(heat, grad, entropy)]

\* The record handed to onDataUpdate
EmittedData(heat, grad, entropy) ==
    [temperatureGradient |-> grad,
     entropyProduction   |-> Max(0, entropy),
     systemState         |-> systemState(heat, grad, entropy)]

-----------------------------------------------------------------------------
(* Thermodynamic gas: state and operations *)

\* Model bounds
MaxTicks == 2
MaxParticles == 2

\* thermoParams.particleCount (the slider gives 100..2000; the model keeps the
\* collection small)
ParticleCounts == 1..MaxParticles

\* Heat Input slider: 0 .. 0.2 in steps of 0.005; Reset gives 0.05.  In Milli.
HeatChoices == {0, 50, 200}

\* delta * 60 of a frame: 1/60 s and 2 s
DeltaChoices == {1, 120}

\* Particles as the useEffect draws them: position (Math.random() - 0.5) *
\* BOX_SIZE per axis, velocity (Math.random() - 0.5) * 0.1 per axis.
\* Three draws: one heading for the hot wall, one heading for the cold wall and
\* the Y wall, one in the middle heading for the Z wall.
InitialParticles(ver) ==
    LET h == halfBox(ver)
    IN  << [px |-> h - 100, py |-> 0,       pz |-> 0,      vx |-> 400,  vy |-> 0,    vz |-> 100],
           [px |-> 100 - h, py |-> h - 100, pz |-> 0,      vx |-> -400, vy |-> 300,  vz |-> 0],
           [px |-> 0,       py |-> -1000,   pz |-> 50 - h, vx |-> -250, vy |-> -200, vz |-> -450] >>

\* The collections of n particles (the order of the draws does not matter to
\* any per-particle rule, so one order of each collection is kept)
ParticleSets(ver, n) ==
    LET init == InitialParticles(ver)
        idx  == {f \in [1..n -> 1..Len(init)] : \A i \in 1..(n - 1) : f[i] <= f[i + 1]}
    IN  {[i \in 1..n |-> init[f[i]]] : f \in idx}

TotalKineticEnergy(ps) == SumSeq([i \in 1..Len(ps) |-> lengthSq(ps[i])])

NoFrame ==
    [ran |-> FALSE, heat |-> 0, energyIn |-> 0, energyOut |-> 0,
     entropyProduction |-> 0, keBefore |-> 0, keAfter |-> 0,
     delta |-> 0]

\* App.tsx useState initial values; Particles: particlesRef = useRef([])
GasUnmounted ==
    /\ thermoParams = [particleCount |-> 0, heat |-> 0, isPaused |-> TRUE]
    /\ simulationData = [temperatureGradient |-> <<>>,
                         entropyProduction |-> 0,
                         systemState |-> "Initializing"]
    /\ gasVersion = 2
    /\ particles = [ps |-> <<>>, effectPending |-> FALSE]
    /\ frame = NoFrame
    /\ ticks = 0

GasMounted ==
    /\ thermoParams = [particleCount |-> MaxParticles, heat |-> 50, isPaused |-> FALSE]
    /\ simulationData = [temperatureGradient |-> <<>>, entropyProduction |-> 0,
                         systemState |-> "Initializing"]
    /\ gasVersion \in {1, 2}
    /\ particles = [ps |-> <<>>, effectPending |-> TRUE]
    /\ frame = NoFrame
    /\ ticks = 0

GasInit ==
    /\ GasMounted
    /\ BoidsUnmounted
    /\ RdUnmounted
    /\ AppIdle("thermodynamics")

\* useEffect(..., [particleCount]): (re)allocates the collection
ParticlesEffect ==
    /\ particles.effectPending
    /\ \E ps \in ParticleSets(gasVersion, thermoParams.particleCount) :
          particles' = [ps |-> ps, effectPending |-> FALSE]
    /\ UNCHANGED <<boidsVars, rdVars, appVars, thermoParams, simulationData, gasVersion, frame, ticks>>

\* useFrame of Particles, not paused: the forEach, the metrics, onDataUpdate
Tick(delta) ==
    /\ ticks < MaxTicks
    /\ ~thermoParams.isPaused
    /\ LET heat  == thermoParams.heat
           ps    == particles.ps
           steps == [i \in 1..Len(ps) |-> StepParticle(ps[i], delta, heat, gasVersion)]
           qs    == [i \in 1..Len(ps) |-> steps[i].p]
           eIn   == SumSeq([i \in 1..Len(ps) |-> steps[i].dIn])
           eOut  == SumSeq([i \in 1..Len(ps) |-> steps[i].dOut])
           grad  == temperatureGradient(qs, gasVersion)
           ent   == entropyProduction(eIn, eOut, grad)
       IN  /\ particles' = [particles EXCEPT !.ps = qs]
           /\ simulationData' = EmittedData(heat, grad, ent)
           /\ frame' = [ran |-> TRUE, heat |-> heat, energyIn |-> eIn,
                        energyOut |-> eOut, entropyProduction |-> ent,
                        keBefore |-> TotalKineticEnergy(ps),
                        keAfter |-> TotalKineticEnergy(qs),
                        delta |-> delta]
    /\ ticks' = ticks + 1
    /\ UNCHANGED <<boidsVars, rdVars, appVars, thermoParams, gasVersion>>

\* Variant: a paused frame that still moves the particles
PausedTick_moves ==
    /\ ticks < MaxTicks
    /\ thermoParams.isPaused
    /\ particles' = [particles EXCEPT
                        !.ps = [i \in 1..Len(particles.ps) |-> Advance(particles.ps[i], 1)]]
    /\ frame' = NoFrame
    /\ ticks' = ticks + 1
    /\ UNCHANGED <<boidsVars, rdVars, appVars, thermoParams, simulationData, gasVersion>>

\* useFrame of Particles while isPaused: returns at once
PausedTick ==
    /\ ticks < MaxTicks
    /\ thermoParams.isPaused
    /\ frame' = NoFrame
    /\ ticks' = ticks + 1
    /\ UNCHANGED <<boidsVars, rdVars, appVars, thermoParams, simulationData, gasVersion, particles>>

\* ControlPanel Heat Input slider and Reset button -> handleThermoParamsChange
SetHeat(h) ==
    /\ thermoParams' = [thermoParams EXCEPT !.heat = h]
    /\ UNCHANGED <<boidsVars, rdVars, appVars, simulationData, gasVersion, particles, frame, ticks>>

\* ControlPanel Pause/Resume button
TogglePause ==
    /\ thermoParams' = [thermoParams EXCEPT !.isPaused = ~thermoParams.isPaused]
    /\ UNCHANGED <<boidsVars, rdVars, appVars, simulationData, gasVersion, particles, frame, ticks>>

\* ControlPanel Number of Particles slider: the re-render runs the effect of
\* Particles again, which allocates a new collection
SetParticleCount(n) ==
    /\ n # thermoParams.particleCount
    /\ ~particles.effectPending
    /\ thermoParams' = [thermoParams EXCEPT !.particleCount = n]
    /\ \E ps \in ParticleSets(gasVersion, n) :
          particles' = [ps |-> ps, effectPending |-> FALSE]
    /\ UNCHANGED <<boidsVars, rdVars, appVars, simulationData, gasVersion, frame, ticks>>

GasNext ==
    \/ ParticlesEffect
    \/ \E d \in DeltaChoices : Tick(d)
    \/ PausedTick
    \/ \E h \in HeatChoices : SetHeat(h)
    \/ TogglePause
    \/ \E n \in ParticleCounts : SetParticleCount(n)

GasSpec == GasInit /\ [][GasNext]_vars

-----------------------------------------------------------------------------
(* Thermodynamic gas: properties *)

InBox(p, ver) ==
    /\ Abs(p.px) <= halfBox(ver)
    /\ Abs(p.py) <= halfBox(ver)
    /\ Abs(p.pz) <= halfBox(ver)

\* C1: after any sequence of ticks every particle's x, y and z lie within
\* [-BOX_SIZE/2, BOX_SIZE/2].
C1_ParticlesInBox ==
    \A i \in 1..Len(particles.ps) : InBox(particles.ps[i], gasVersion)

\* C2 as stated: in every reachable state, also before the first gas tick, the
\* SimulationData record has a temperatureGradient of exactly 10 entries.
C2_GradientAlwaysTenEntries ==
    /\ DOMAIN simulationData = {"temperatureGradient", "entropyProduction", "systemState"}
    /\ Len(simulationData.temperatureGradient) = SLICES

\* C2 amended: the record is always complete; its temperatureGradient has 10
\* entries once a gas tick has emitted a record, and until then it is the
\* placeholder of App: no entries, entropyProduction 0, 'Initializing'.
C2_GradientTenEntriesOnceEmitted ==
    /\ DOMAIN simulationData = {"temperatureGradient", "entropyProduction", "systemState"}
    /\ (frame.ran => Len(simulationData.temperatureGradient) = SLICES)
    /\ IF simulationData.systemState = "Initializing"
       THEN /\ simulationData.temperatureGradient = <<>>
            /\ simulationData.entropyProduction = 0
            /\ ~frame.ran
       ELSE Len(simulationData.temperatureGradient) = SLICES

C2_Witness ==
    /\ frame.ran
    /\ Len(simulationData.temperatureGradient) = SLICES
    /\ simulationData.systemState # "Initializing"

\* C3: with heat = 0, in every tick energyIn is 0 and the total kinetic energy
\* of the particle set does not increase over the tick.
C3_NoEnergyGainAtZeroHeat ==
    (frame.ran /\ frame.heat = 0) =>
        /\ frame.energyIn = 0
        /\ frame.keAfter <= frame.keBefore

\* C4: every record emitted at the end of an unpaused tick has a
\* temperatureGradient of length 10, an entropyProduction >= 0 and a systemState
\* among the four labels, for any particle configuration.
C4_MetricsTotal ==
    frame.ran =>
        /\ Len(simulationData.temperatureGradient) = SLICES
        /\ simulationData.entropyProduction >= 0
        /\ simulationData.systemState \in SystemStates

\* a tick whose energy balance is negative and whose first and last slices
\* are not both occupied
C4_Witness ==
    /\ frame.ran
    /\ frame.entropyProduction < 0
    /\ simulationData.entropyProduction = 0
    /\ \E k \in 1..SLICES : simulationData.temperatureGradient[k] = 0

\* a tick over the empty collection
C4_WitnessEmpty ==
    /\ frame.ran
    /\ particles.ps = <<>>
    /\ Len(simulationData.temperatureGradient) = SLICES

\* C5: whenever heat < 0.001 the emitted systemState is 'Near Equilibrium',
\* whatever the gradient, energyIn, energyOut and the entropy estimate are.
C5_NearEquilibriumFirst ==
    (frame.ran /\ frame.heat < HeatThreshold) =>
        simulationData.systemState = "Near Equilibrium"

\* heat below the threshold in a tick that meets both 'Steady State' conditions
C5_Witness ==
    /\ frame.ran
    /\ frame.heat < HeatThreshold
    /\ gradientStdDevExceeds(simulationData.temperatureGradient)
    /\ Abs(frame.entropyProduction) > EntropyThreshold
    /\ simulationData.systemState = "Near Equilibrium"

C6_WitnessChaotic ==
    /\ frame.ran
    /\ frame.heat >= HeatThreshold
    /\ simulationData.systemState = "Chaotic"

(***************************************************************************)
(* Boids: vectors                                                          *)
(*                                                                         *)
(* Lengths and speeds are integers in units of 1/1000 (Bu).  A Vector3 is  *)
(* a record [x, y, z].  setLength truncates towards zero, so a vector set  *)
(* to length L is never longer than L, as in exact arithmetic.             *)
(***************************************************************************)
Bu == 10^3

Vec(a, b, c) == [x |-> a, y |-> b, z |-> c]

ZeroVec == Vec(0, 0, 0)

add(a, b) == Vec(a.x + b.x, a.y + b.y, a.z + b.z)

subVectors(a, b) == Vec(a.x - b.x, a.y - b.y, a.z - b.z)

TruncDiv(a, b) == Sign(a) * (Abs(a) \div b)

divideScalar(a, n) == Vec(RoundDiv(a.x, n), RoundDiv(a.y, n), RoundDiv(a.z, n))

\* multiplyScalar by a weight given in tenths
multiplyScalar(a, tenths) ==
    Vec(RoundDiv(a.x * tenths, 10), RoundDiv(a.y * tenths, 10),
        RoundDiv(a.z * tenths, 10))

vecLengthSq(a) == a.x * a.x + a.y * a.y + a.z * a.z

MaxAbs(a) == Max(Abs(a.x), Max(Abs(a.y), Abs(a.z)))

\* largest r in lo..hi with r * r <= n
RECURSIVE ISqrtBetween(_, _, _)
ISqrtBetween(n, lo, hi) ==
    IF lo >= hi THEN lo
    ELSE LET mid == (lo + hi + 1) \div 2
         IN  IF mid * mid <= n THEN ISqrtBetween(n, mid, hi)
                               ELSE ISqrtBetween(n, lo, mid - 1)

ISqrt(n) == ISqrtBetween(n, 0, 46340)

CeilSqrt(n) == LET r == ISqrt(n) IN IF r * r = n THEN r ELSE r + 1

\* Vector3.setLength(len): normalize() (the zero vector stays zero), then
\* scale.  The vector is first brought into a range where its squared
\* length fits the integers.
ScaleRange == 2 * Bu

setLength(a, len) ==
    IF a = ZeroVec THEN a
    ELSE LET k     == (MaxAbs(a) \div ScaleRange) + 1
             w     == Vec(TruncDiv(a.x, k), TruncDiv(a.y, k), TruncDiv(a.z, k))
             len10 == CeilSqrt(vecLengthSq(w) * 100)
         IN  IF w = ZeroVec THEN w
             ELSE Vec(TruncDiv(w.x * len * 10, len10),
                      TruncDiv(w.y * len * 10, len10),
                      TruncDiv(w.z * len * 10, len10))

\* |a| > len, decided without squaring a long vector
LongerThan(a, len) ==
    \/ MaxAbs(a) > len
    \/ vecLengthSq(a) > len * len

\* Vector3.clampLength(0, max)
clampLength(a, max) ==
    IF LongerThan(a, max) THEN setLength(a, max) ELSE a

\* a.distanceTo(b) < r
CloserThan(a, b, r) ==
    LET d == subVectors(a, b)
    IN  /\ MaxAbs(d) < r
        /\ vecLengthSq(d) < r * r

\* Vector3.lerp(target, 0.1)
lerp(a, target) == add(a, divideScalar(subVectors(target, a), 10))

(***************************************************************************)
(* Boids: the Boid class                                                   *)
(***************************************************************************)
BOUNDS == 25 * Bu

MAX_SPEED == Bu \div 4

MAX_FORCE == Bu \div 100

\* the weights, in tenths
COHESION_WEIGHT == 10

ALIGNMENT_WEIGHT == 12

SEPARATION_WEIGHT == 15

PREDATOR_WEIGHT == 25

PERCEPTION_RADIUS == 3 * Bu

SEPARATION_DISTANCE == Bu

PREDATOR_RADIUS == 5 * Bu

half == BOUNDS \div 2

RECURSIVE SumVec(_)
SumVec(f) ==
    IF DOMAIN f = {} THEN ZeroVec
    ELSE LET j == CHOOSE k \in DOMAIN f : TRUE
         IN  add(f[j], SumVec([k \in DOMAIN f \ {j} |-> f[k]]))

\* Boid.steer(target)
steer(boid, target) ==
    LET desired == setLength(subVectors(target, boid.position), MAX_SPEED)
    IN  clampLength(subVectors(desired, boid.velocity), MAX_FORCE)

\* Variant: the difference divided by the distance once
SeparationPush_overDistance(selfPos, otherPos) ==
    LET diff == subVectors(selfPos, otherPos)
        d    == ISqrt(vecLengthSq(diff))
    IN  Vec(TruncDiv(diff.x * Milli, d),
            TruncDiv(diff.y * Milli, d),
            TruncDiv(diff.z * Milli, d))

\* diff.normalize().divideScalar(d): the difference divided by the squared
\* distance, in 1/1000
SeparationPush(selfPos, otherPos) ==
    LET diff == subVectors(selfPos, otherPos)
        d2   == vecLengthSq(diff)
    IN  Vec(TruncDiv(diff.x * Bu * Milli, d2),
            TruncDiv(diff.y * Bu * Milli, d2),
            TruncDiv(diff.z * Bu * Milli, d2))

\* the boids counted by the loop of flock: not this one, 0 < d < radius
Neighbours(bs, i, radius) ==
    {j \in DOMAIN bs :
        /\ j # i
        /\ bs[j].position # bs[i].position
        /\ CloserThan(bs[i].position, bs[j].position, radius)}

\* the separation vector flock accumulates for the boid at index i
separation(bs, i) ==
    SumVec([j \in Neighbours(bs, i, SEPARATION_DISTANCE) |->
              SeparationPush(bs[i].position, bs[j].position)])

\* Boid.flock(boids, predatorPosition), for the boid at index i
flock(bs, i, predatorPosition) ==
    LET self  == bs[i]
        near  == Neighbours(bs, i, PERCEPTION_RADIUS)
        total == Cardinality(near)
        sep   == separation(bs, i)
        alignment  == SumVec([j \in near |-> bs[j].velocity])
        cohesion   == SumVec([j \in near |-> bs[j].position])
        alignSteer ==
            IF total > 0
            THEN multiplyScalar(
                     steer(self, add(self.position,
                                     setLength(divideScalar(alignment, total),
                                               MAX_SPEED))),
                     ALIGNMENT_WEIGHT)
            ELSE ZeroVec
        cohesionSteer ==
            IF total > 0
            THEN multiplyScalar(steer(self, divideScalar(cohesion, total)),
                                COHESION_WEIGHT)
            ELSE ZeroVec
        separationSteer ==
            IF sep # ZeroVec
            THEN multiplyScalar(
                     steer(self, add(self.position,
                                     setLength(sep, MAX_SPEED))),
                     SEPARATION_WEIGHT)
            ELSE ZeroVec
        fleeSteer ==
            IF CloserThan(self.position, predatorPosition, PREDATOR_RADIUS)
            THEN multiplyScalar(
                     steer(self, add(self.position,
                                     setLength(subVectors(self.position,
                                                          predatorPosition),
                                               MAX_SPEED))),
                     PREDATOR_WEIGHT)
            ELSE ZeroVec
    IN  [self EXCEPT !.acceleration =
            add(add(add(add(@, alignSteer), cohesionSteer), separationSteer),
                fleeSteer)]

wrapAxis(c) ==
    IF c > half THEN -half
    ELSE IF c < -half THEN half
    ELSE c

\* Boid.wrap()
wrap_xyOnly(p) ==
    Vec(wrapAxis(p.x), wrapAxis(p.y), p.z)

wrap(p) ==
    Vec(wrapAxis(p.x), wrapAxis(p.y), wrapAxis(p.z))

\* Boid.update()
update_clampBeforeAdd(boid) ==
    LET velocity == add(clampLength(boid.velocity, MAX_SPEED), boid.acceleration)
    IN  [position     |-> wrap(add(boid.position, velocity)),
         velocity     |-> velocity,
         acceleration |-> ZeroVec]

\* Variant: update() without this.acceleration.multiplyScalar(0)
update_keepsAcceleration(boid) ==
    LET velocity == clampLength(add(boid.velocity, boid.acceleration), MAX_SPEED)
    IN  [position     |-> wrap(add(boid.position, velocity)),
         velocity     |-> velocity,
         acceleration |-> boid.acceleration]

update(boid) ==
    LET velocity == clampLength(add(boid.velocity, boid.acceleration), MAX_SPEED)
    IN  [position     |-> wrap(add(boid.position, velocity)),
         velocity     |-> velocity,
         acceleration |-> ZeroVec]

\* boids.forEach(boid => { boid.flock(boids, predator); boid.update(); }),
\* from index i on: each boid sees the boids before it already moved
RECURSIVE FlockAndUpdate(_, _, _)
FlockAndUpdate(bs, i, predatorPosition) ==
    IF i > Len(bs) THEN bs
    ELSE FlockAndUpdate([bs EXCEPT ![i] = update(flock(bs, i, predatorPosition))],
                        i + 1, predatorPosition)

(***************************************************************************)
(* Boids: state and operations                                             *)
(***************************************************************************)
MaxBoids == 3
MaxBoidFrames == 2

\* Boids as the constructor can build them: position inside the box, speed
\* below MAX_SPEED, no acceleration.
NewBoid(p, v) == [position |-> p, velocity |-> v, acceleration |-> ZeroVec]

InitialBoids ==
    { NewBoid(Vec(half - 100, 0, 0), Vec(240, 0, 0)),
      NewBoid(Vec(half - 500, 300, 0), Vec(100, 100, 100)),
      NewBoid(Vec(half - 2000, 0, 0), ZeroVec),
      NewBoid(Vec(500, 0, 0), Vec(245, 0, 0)),
      NewBoid(Vec(300, 400, -half), Vec(0, 0, -10)) }

\* where the pointer ray meets the plane z = 0
PredatorTargets ==
    { ZeroVec, Vec(30 * Bu, 0, 0), Vec(-20 * Bu, 15 * Bu, 0) }

BoidsInit ==
    /\ boids \in [1..MaxBoids -> InitialBoids]
    /\ predator = ZeroVec
    /\ boidFrames = 0
    /\ RdUnmounted
    /\ GasUnmounted
    /\ AppIdle("boids")

\* one run of the useFrame callback of BoidsSystem
BoidsFrame(target) ==
    /\ boidFrames < MaxBoidFrames
    /\ predator' = lerp(predator, target)
    /\ boids' = FlockAndUpdate(boids, 1, predator')
    /\ boidFrames' = boidFrames + 1
    /\ UNCHANGED <<gasVars, rdVars, appVars>>

BoidsNext ==
    \E target \in PredatorTargets : BoidsFrame(target)

BoidsSpec == BoidsInit /\ [][BoidsNext]_vars

(***************************************************************************)
(* Boids: properties                                                       *)
(***************************************************************************)
BoidInBounds(b) ==
    /\ b.position.x >= -half /\ b.position.x <= half
    /\ b.position.y >= -half /\ b.position.y <= half
    /\ b.position.z >= -half /\ b.position.z <= half

\* C7: after every tick each component of every boid's position lies in
\* [-BOUNDS/2, BOUNDS/2]; a boid that leaves through one face re-enters at
\* the opposite face.
C7_BoidsInBounds ==
    \A i \in DOMAIN boids : BoidInBounds(boids[i])

\* a tick has run and a boid has been wrapped on each of the three axes'
\* far faces: x from +half to -half, z from -half to +half
C7_Witness ==
    /\ boidFrames > 0
    /\ \E i \in DOMAIN boids : boids[i].position.x = -half
    /\ \E i \in DOMAIN boids : boids[i].position.z = half

\* C8: after every tick every boid's speed is at most MAX_SPEED.
C8_SpeedLimit ==
    \A i \in DOMAIN boids :
        vecLengthSq(boids[i].velocity) <= MAX_SPEED * MAX_SPEED

\* a tick has run and left a boid at the speed limit, faster than any boid
\* starts
C8_Witness ==
    /\ boidFrames > 0
    /\ \E i \in DOMAIN boids :
          vecLengthSq(boids[i].velocity) > (MAX_SPEED - 2) * (MAX_SPEED - 2)

(***************************************************************************)
(* Reaction-diffusion and BZ: the simulation shader                        *)
(*                                                                         *)
(* A render target is a GridSize x GridSize grid of texels [u, v]; u and v *)
(* are integers in units of 1/1000 (Cs), feed and kill in units of 1/10000.*)
(* Three steppers exist: "rdNew" (unnamed/part_000), "rdOld"               *)
(* (unnamed/part_001) and "bz" (BZReactionScene.tsx).                      *)
(***************************************************************************)
GridSize == 3

Cs == 10^3

Cells == (0..(GridSize - 1)) \X (0..(GridSize - 1))

Rate == 10^4

\* clamp(x, 0.0, 1.0)
clamp01_identity(x) ==
    x

clamp01(x) ==
    Max(0, Min(Cs, x))

\* texture2D with the default ClampToEdge wrapping, at texel centres
texture2D(grid, x, y) ==
    grid[<<Max(0, Min(GridSize - 1, x)), Max(0, Min(GridSize - 1, y))>>]

\* the nine-point stencil of laplacian(), times 100, for one channel
laplacianOf_heavyCentre(grid, c, ch) ==
    LET x == c[1]
        y == c[2]
    IN    20 * (  texture2D(grid, x, y + 1)[ch] + texture2D(grid, x, y - 1)[ch]
                + texture2D(grid, x + 1, y)[ch] + texture2D(grid, x - 1, y)[ch])
        + 5 * (  texture2D(grid, x + 1, y + 1)[ch]
               + texture2D(grid, x - 1, y + 1)[ch]
               + texture2D(grid, x + 1, y - 1)[ch]
               + texture2D(grid, x - 1, y - 1)[ch])
        - 120 * texture2D(grid, x, y)[ch]

laplacianOf(grid, c, ch) ==
    LET x == c[1]
        y == c[2]
    IN    20 * (  texture2D(grid, x, y + 1)[ch] + texture2D(grid, x, y - 1)[ch]
                + texture2D(grid, x + 1, y)[ch] + texture2D(grid, x - 1, y)[ch])
        + 5 * (  texture2D(grid, x + 1, y + 1)[ch]
               + texture2D(grid, x - 1, y + 1)[ch]
               + texture2D(grid, x + 1, y - 1)[ch]
               + texture2D(grid, x - 1, y - 1)[ch])
        - 100 * texture2D(grid, x, y)[ch]

laplacian(grid, c) ==
    [u |-> laplacianOf(grid, c, "u"), v |-> laplacianOf(grid, c, "v")]

\* Du = 0.16 and Dv = 0.08, in hundredths
Du == 16

Dv == 8

\* dt of the shader: 2.0 for BZ, 1.0 otherwise
dt(build) == IF build = "bz" THEN 2 ELSE 1

\* the feed and kill rates the shader uses
uFeed(build, params) ==
    IF build = "bz" THEN (3 * Rate) \div 100
    ELSE IF build = "rdNew" THEN (55 * Rate) \div 1000
    ELSE params.feed

uKill(build, params) ==
    IF build = "bz" THEN (6 * Rate) \div 100
    ELSE IF build = "rdNew" THEN (62 * Rate) \div 1000
    ELSE params.kill

\* round a / b to the nearest integer, b > 0
RoundHalfUp(a, b) == (a + b \div 2) \div b

\* uv coordinates are in units of 1/(100 * GridSize): texel centres and
\* the radius 0.02 are whole numbers
UvUnit == 100 * GridSize

TexelCentre(c) == [x |-> 100 * c[1] + 50, y |-> 100 * c[2] + 50]

NoMouse == [x |-> -UvUnit, y |-> -UvUnit]

\* Variant: the excitation without the distance test
Excited_anywhere(c, m) ==
    m.x > 0

\* uMouse.x > 0.0 && distance(vUv, uMouse) < 0.02
Excited(c, m) ==
    LET dx == TexelCentre(c).x - m.x
        dy == TexelCentre(c).y - m.y
        r  == (2 * UvUnit) \div 100
    IN  /\ m.x > 0
        /\ dx * dx + dy * dy < r * r

\* main() of the simulation shader for the texel c
ShaderMain(build, grid, c, params, m) ==
    LET u == grid[c].u
        v == grid[c].v
        L == laplacian(grid, c)
        reaction == u * v * v
        feed == uFeed(build, params)
        kill == uKill(build, params)
        scale == (Cs * Cs) \div dt(build)
        du == Du * 100 * L.u - reaction + ((Cs * Cs) \div Rate) * feed * (Cs - u)
        dv == Dv * 100 * L.v + reaction - ((Cs * Cs) \div Rate) * (feed + kill) * v
        u_new == clamp01(u + RoundHalfUp(du, scale))
        v_new == clamp01(v + RoundHalfUp(dv, scale))
    IN  [u |-> IF build = "bz" /\ Excited(c, m) THEN Cs ELSE u_new,
         v |-> v_new]

\* a target after the renderer's clear: every channel 0
ClearedGrid == [c \in Cells |-> [u |-> 0, v |-> 0]]

\* gl.render(scene, camera) into a target: the target is cleared, then the
\* full-screen quad is drawn with the simulation shader.  The fragment
\* shader of "rdNew" reads L without declaring it and does not compile, so
\* in that build the quad is not drawn.
Draw(build, grid, params, m) ==
    IF build = "rdNew" THEN ClearedGrid
    ELSE [c \in Cells |-> ShaderMain(build, grid, c, params, m)]

(***************************************************************************)
(* Reaction-diffusion and BZ: state and operations                         *)
(*                                                                         *)
(* The useFrame callback runs its whole loop without interruption; its     *)
(* steps (bind, render, swap, finish) are separate transitions so that     *)
(* the buffers can be observed between them.  Pointer and slider events    *)
(* and re-renders happen only between two runs of the callback.            *)
(***************************************************************************)
MaxRdFrames == 2

Builds == {"rdNew", "rdOld", "bz"}

\* sub-steps per frame
subSteps(build) ==
    IF build = "rdNew" THEN 8
    ELSE IF build = "rdOld" THEN 5
    ELSE 2

\* the slider positions tried (range 0.01 .. 0.1)
FeedChoices == {Rate \div 100, (55 * Rate) \div 1000, Rate \div 10}

KillChoices == {Rate \div 100, (62 * Rate) \div 1000, Rate \div 10}

\* the centre square seeded with v = 1, scaled to the grid
seedSize == 1

isSeed(c) ==
    /\ Abs(2 * c[1] - GridSize) < 2 * seedSize
    /\ Abs(2 * c[2] - GridSize) < 2 * seedSize

SeededGrid(seeds) ==
    [c \in Cells |-> [u |-> Cs, v |-> IF c \in seeds THEN Cs ELSE 0]]

\* the cells Math.random() > 0.98 picks: none, any one, or two neighbours
BzSeedChoices ==
    {{}} \cup {{c} : c \in Cells} \cup {{<<0, 0>>, <<1, 0>>}}

\* where a pointer can go down: on a texel centre, near one, between texels
MiddleCell == <<GridSize \div 2, GridSize \div 2>>

MouseChoices ==
    { TexelCentre(MiddleCell),
      [x |-> TexelCentre(MiddleCell).x + GridSize, y |-> TexelCentre(MiddleCell).y],
      [x |-> 100, y |-> 100] }

\* the state after mount and the seeding effect
RDInit ==
    /\ rdBuild \in Builds
    /\ \E seeds \in (IF rdBuild = "bz" THEN BzSeedChoices
                                      ELSE {{c \in Cells : isSeed(c)}}) :
          fbo = <<SeededGrid(seeds), ClearedGrid>>
    /\ currentFBO = 1
    /\ nextFBO = 2
    /\ uTexture = 0
    /\ renderTarget = 0
    /\ displayTexture = IF rdBuild = "bz" THEN 1 ELSE 0
    /\ rdParams = [feed |-> (55 * Rate) \div 1000, kill |-> (62 * Rate) \div 1000]
    /\ mouse = NoMouse
    /\ pointerDowns = {}
    /\ rdPc = "idle"
    /\ rdI = 0
    /\ rdFrames = 0
    /\ GasUnmounted
    /\ BoidsUnmounted
    /\ AppIdle(IF rdBuild = "bz" THEN "bz-reaction" ELSE "reaction-diffusion")

\* the target of gl.setRenderTarget in the loop
WriteTarget_current(cur, nxt) ==
    cur

WriteTarget(cur, nxt) ==
    nxt

\* loop head and the statements before gl.render: uniforms, render target
Bind ==
    /\ \/ rdPc = "idle" /\ rdFrames < MaxRdFrames
       \/ rdPc = "loop"
    /\ rdI' = IF rdPc = "idle" THEN 0 ELSE rdI
    /\ uTexture' = currentFBO
    /\ renderTarget' = WriteTarget(currentFBO, nextFBO)
    /\ rdPc' = "render"
    /\ UNCHANGED <<rdBuild, fbo, currentFBO, nextFBO, displayTexture,
                   rdParams, mouse, pointerDowns, rdFrames>>
    /\ UNCHANGED <<gasVars, boidsVars, appVars>>

\* gl.render(scene, camera)
Render ==
    /\ rdPc = "render"
    /\ fbo' = [fbo EXCEPT ![renderTarget] =
                  Draw(rdBuild, fbo[uTexture], rdParams, mouse)]
    /\ rdPc' = "swap"
    /\ UNCHANGED <<rdBuild, currentFBO, nextFBO, uTexture, renderTarget,
                   displayTexture, rdParams, mouse, pointerDowns, rdI,
                   rdFrames>>
    /\ UNCHANGED <<gasVars, boidsVars, appVars>>

\* [currentFBO, nextFBO] = [nextFBO, currentFBO]; i++
Swap ==
    /\ rdPc = "swap"
    /\ currentFBO' = nextFBO
    /\ nextFBO' = currentFBO
    /\ rdI' = rdI + 1
    /\ rdPc' = IF rdI + 1 < subSteps(rdBuild) THEN "loop" ELSE "finish"
    /\ UNCHANGED <<rdBuild, fbo, uTexture, renderTarget, displayTexture,
                   rdParams, mouse, pointerDowns, rdFrames>>
    /\ UNCHANGED <<gasVars, boidsVars, appVars>>

\* the statements after the loop
Finish ==
    /\ rdPc = "finish"
    /\ displayTexture' = currentFBO
    /\ renderTarget' = IF rdBuild = "rdNew" THEN renderTarget ELSE 0
    /\ mouse' = IF rdBuild = "bz" THEN NoMouse ELSE mouse
    /\ pointerDowns' = {}
    /\ rdFrames' = rdFrames + 1
    /\ rdPc' = "idle"
    /\ UNCHANGED <<rdBuild, fbo, currentFBO, nextFBO, uTexture, rdParams, rdI>>
    /\ UNCHANGED <<gasVars, boidsVars, appVars>>

\* a slider of the control panel moves: App re-renders the scene, and the
\* component body runs again (let currentFBO = fbo1; let nextFBO = fbo2)
SetRdParams(feed, kill) ==
    /\ rdPc = "idle"
    /\ rdBuild \in {"rdNew", "rdOld"}
    /\ rdParams' = [feed |-> feed, kill |-> kill]
    /\ currentFBO' = 1
    /\ nextFBO' = 2
    /\ UNCHANGED <<rdBuild, fbo, uTexture, renderTarget, displayTexture,
                   mouse, pointerDowns, rdPc, rdI, rdFrames>>
    /\ UNCHANGED <<gasVars, boidsVars, appVars>>

\* handlePointerDown: the uv of the hit, and setRipples re-renders BZSystem
PointerDown(uv) ==
    /\ rdPc = "idle"
    /\ rdBuild = "bz"
    /\ mouse' = uv
    /\ pointerDowns' = pointerDowns \cup {uv}
    /\ currentFBO' = 1
    /\ nextFBO' = 2
    /\ UNCHANGED <<rdBuild, fbo, uTexture, renderTarget, displayTexture,
                   rdParams, rdPc, rdI, rdFrames>>
    /\ UNCHANGED <<gasVars, boidsVars, appVars>>

\* any other re-render of the stepper's component (a ripple ends, App
\* changes state)
Rerender ==
    /\ rdPc = "idle"
    /\ currentFBO' = 1
    /\ nextFBO' = 2
    /\ UNCHANGED <<rdBuild, fbo, uTexture, renderTarget, displayTexture,
                   rdParams, mouse, pointerDowns, rdPc, rdI, rdFrames>>
    /\ UNCHANGED <<gasVars, boidsVars, appVars>>

RDNext ==
    \/ Bind
    \/ Render
    \/ Swap
    \/ Finish
    \/ \E feed \in FeedChoices, kill \in KillChoices : SetRdParams(feed, kill)
    \/ \E uv \in MouseChoices : PointerDown(uv)
    \/ Rerender

RDSpec == RDInit /\ [][RDNext]_vars

(***************************************************************************)
(* Reaction-diffusion and BZ: properties                                   *)
(***************************************************************************)
InUnitRange(grid) ==
    \A c \in DOMAIN grid :
        /\ grid[c].u >= 0 /\ grid[c].u <= Cs
        /\ grid[c].v >= 0 /\ grid[c].v <= Cs

\* C9: from the seeded grid on, u and v of every cell of both buffers lie
\* in [0, 1] after every sub-step.
C9_Clamped ==
    \A b \in DOMAIN fbo : InUnitRange(fbo[b])

\* a sub-step of a working stepper has just written a cell whose v the
\* clamp holds at 1 while its u is used up
C9_Witness ==
    /\ rdBuild \in {"rdOld", "bz"}
    /\ rdPc = "swap"
    /\ \E c \in Cells : fbo[renderTarget][c].v = Cs /\ fbo[renderTarget][c].u < Cs

UniformGrid == SeededGrid({})

InputGrids ==
    { UniformGrid,
      SeededGrid({c \in Cells : isSeed(c)}),
      SeededGrid({<<0, 0>>}),
      [c \in Cells |-> [u |-> Cs \div 2, v |-> Cs \div 4]] }

StepInit ==
    /\ rdBuild \in {"rdOld", "bz"}
    /\ \E g \in InputGrids : fbo = <<g, ClearedGrid>>
    /\ currentFBO = 1
    /\ nextFBO = 2
    /\ uTexture = 0
    /\ renderTarget = 0
    /\ displayTexture = IF rdBuild = "bz" THEN 1 ELSE 0
    /\ rdParams = [feed |-> (55 * Rate) \div 1000, kill |-> (62 * Rate) \div 1000]
    /\ mouse = NoMouse
    /\ pointerDowns = {}
    /\ rdPc = "idle"
    /\ rdI = 0
    /\ rdFrames = 0
    /\ GasUnmounted
    /\ BoidsUnmounted
    /\ AppIdle(IF rdBuild = "bz" THEN "bz-reaction" ELSE "reaction-diffusion")

StepSpec == StepInit /\ [][RDNext]_vars

\* no texel is within the excitation radius of the pointer
NoExcitePoint == \A c \in Cells : ~Excited(c, mouse)

\* C11: one step applied to the grid with u = 1 and v = 0 in every cell,
\* with no excite point, writes that same grid, whatever feed and kill are.
C11_UniformFixedPoint ==
    [][ (/\ rdPc = "render"
         /\ rdPc' = "swap"
         /\ fbo[uTexture] = UniformGrid
         /\ NoExcitePoint)
        => fbo'[renderTarget] = UniformGrid ]_vars

\* the uniform grid has been stepped with the feed slider at its upper end
\* and the kill slider at its lower end, and was written back unchanged
C11_Witness ==
    /\ rdBuild = "rdOld"
    /\ rdPc = "swap"
    /\ rdParams = [feed |-> Rate \div 10, kill |-> Rate \div 100]
    /\ fbo[uTexture] = UniformGrid
    /\ fbo[renderTarget] = UniformGrid

\* the same for the BZ stepper after a pointer went down between texels
C11_WitnessBz ==
    /\ rdBuild = "bz"
    /\ rdPc = "swap"
    /\ mouse # NoMouse
    /\ fbo[uTexture] = UniformGrid
    /\ fbo[renderTarget] = UniformGrid

\* C12: after the UI has changed rdParams, every reaction-diffusion step
\* of the following frames runs with the feed and kill of rdParams.
C12_StepsUseUiParams ==
    [][ (/\ rdBuild \in {"rdNew", "rdOld"}
         /\ rdPc = "render"
         /\ rdPc' = "swap")
        => /\ uFeed(rdBuild, rdParams) = rdParams.feed
           /\ uKill(rdBuild, rdParams) = rdParams.kill ]_vars

(***************************************************************************)
(* App and the explanation service                                         *)
(*                                                                         *)
(* AppSpec runs the gas under App together with the visualization          *)
(* selector, the explain button, the modal and the service.  The other     *)
(* scenes are selectable but their own state is not stepped here.          *)
(***************************************************************************)
MaxRequests == 2

Visualizations ==
    {"thermodynamics", "reaction-diffusion", "bz-reaction", "boids",
     "convection-cells"}

Advisory ==
    "API Key is not configured. Please set the process.env.API_KEY environment variable to use this feature."

GenericError == "Failed to communicate with the Gemini API."

Fallback ==
    "Sorry, I couldn't generate an explanation at this time. Please check the console for more details."

\* what ai.models.generateContent can do: answer, or fail
ServiceResults ==
    { [ok |-> TRUE, text |-> "response.text"],
      [ok |-> FALSE, text |-> "cause"] }

\* generateExplanation: how the returned promise settles, and how many
\* times the service was called, given the service's behaviour sr
generateExplanation_noKeyCheck(key, sr) ==
    IF sr.ok
    THEN [kind |-> "resolved", value |-> sr.text, calls |-> 1, serviceOk |-> TRUE]
    ELSE [kind |-> "rejected", value |-> GenericError, calls |-> 1,
          serviceOk |-> FALSE]

generateExplanation(key, sr) ==
    IF ~key
    THEN [kind |-> "resolved", value |-> Advisory, calls |-> 0, serviceOk |-> TRUE]
    ELSE IF sr.ok
    THEN [kind |-> "resolved", value |-> sr.text, calls |-> 1, serviceOk |-> TRUE]
    ELSE [kind |-> "rejected", value |-> GenericError, calls |-> 1,
          serviceOk |-> FALSE]

\* handleExplain after the await: setExplanation in the try or the catch
Shown_propagates(out) ==
    out.value

Shown(out) ==
    IF out.kind = "resolved" THEN out.value ELSE Fallback

\* the explain button: disabled={isLoadingExplanation}
ExplainEnabled_always ==
    TRUE

ExplainEnabled ==
    ~isLoadingExplanation

AppInit ==
    /\ GasMounted
    /\ BoidsUnmounted
    /\ RdUnmounted
    /\ visualization = "thermodynamics"
    /\ isModalOpen = FALSE
    /\ explanation = ""
    /\ isLoadingExplanation = FALSE
    /\ apiKey \in BOOLEAN
    /\ pending = <<>>
    /\ lastOutcome = NoOutcome
    /\ serviceCalls = 0
    /\ requests = 0

\* a click on "Explain This Phenomenon": handleExplain up to its await.
\* Without a key the promise is already resolved and the rest of the
\* handler runs before any other event.
ClickExplain(sr) ==
    /\ visualization = "thermodynamics"
    /\ ExplainEnabled
    /\ requests < MaxRequests
    /\ LET out == generateExplanation(apiKey, sr)
       IN  /\ serviceCalls' = serviceCalls + out.calls
           /\ IF out.calls = 0
              THEN /\ explanation' = Shown(out)
                   /\ isLoadingExplanation' = FALSE
                   /\ lastOutcome' = out
                   /\ pending' = pending
              ELSE /\ explanation' = ""
                   /\ isLoadingExplanation' = TRUE
                   /\ lastOutcome' = lastOutcome
                   /\ pending' = Append(pending, out)
    /\ isModalOpen' = TRUE
    /\ requests' = requests + 1
    /\ UNCHANGED <<visualization, apiKey>>
    /\ UNCHANGED <<gasVars, boidsVars, rdVars>>

\* the service call settles: the rest of handleExplain
Settle_clearsData ==
    /\ pending # <<>>
    /\ explanation' = Shown(Head(pending))
    /\ isLoadingExplanation' = FALSE
    /\ lastOutcome' = Head(pending)
    /\ pending' = Tail(pending)
    /\ simulationData' = IF Head(pending).kind = "rejected"
                         THEN [temperatureGradient |-> <<>>,
                               entropyProduction |-> 0,
                               systemState |-> "Initializing"]
                         ELSE simulationData
    /\ UNCHANGED <<visualization, isModalOpen, apiKey, serviceCalls, requests>>
    /\ UNCHANGED <<thermoParams, gasVersion, particles, frame, ticks>>
    /\ UNCHANGED <<boidsVars, rdVars>>

\* Variant: setIsLoadingExplanation(false) at the end of the try only
Settle_noFinally ==
    /\ pending # <<>>
    /\ explanation' = Shown(Head(pending))
    /\ isLoadingExplanation' = (Head(pending).kind = "rejected")
    /\ lastOutcome' = Head(pending)
    /\ pending' = Tail(pending)
    /\ UNCHANGED <<visualization, isModalOpen, apiKey, serviceCalls, requests>>
    /\ UNCHANGED <<gasVars, boidsVars, rdVars>>

Settle ==
    /\ pending # <<>>
    /\ explanation' = Shown(Head(pending))
    /\ isLoadingExplanation' = FALSE
    /\ lastOutcome' = Head(pending)
    /\ pending' = Tail(pending)
    /\ UNCHANGED <<visualization, isModalOpen, apiKey, serviceCalls, requests>>
    /\ UNCHANGED <<gasVars, boidsVars, rdVars>>

\* ExplanationModal onClose
CloseModal ==
    /\ isModalOpen
    /\ isModalOpen' = FALSE
    /\ UNCHANGED <<visualization, explanation, isLoadingExplanation, apiKey,
                   pending, lastOutcome, serviceCalls, requests>>
    /\ UNCHANGED <<gasVars, boidsVars, rdVars>>

\* VisualizationSelector: the scene shown before is unmounted; a gas scene
\* mounted again starts with a new Particles component
SetVisualization(v) ==
    /\ v # visualization
    /\ visualization' = v
    /\ particles' = [ps |-> <<>>, effectPending |-> TRUE]
    /\ frame' = NoFrame
    /\ UNCHANGED <<thermoParams, simulationData, gasVersion, ticks>>
    /\ UNCHANGED <<isModalOpen, explanation, isLoadingExplanation, apiKey,
                   pending, lastOutcome, serviceCalls, requests>>
    /\ UNCHANGED <<boidsVars, rdVars>>

\* the reaction-diffusion sliders, shown with that visualization
AppSetRdParams(feed, kill) ==
    /\ visualization = "reaction-diffusion"
    /\ rdParams' = [feed |-> feed, kill |-> kill]
    /\ UNCHANGED <<rdBuild, fbo, currentFBO, nextFBO, uTexture, renderTarget,
                   displayTexture, mouse, pointerDowns, rdPc, rdI, rdFrames>>
    /\ UNCHANGED <<gasVars, boidsVars, appVars>>

\* the gas scene and its controls, while mounted; of the random draws of
\* the particles only the first sample is followed here
AppGasStep ==
    /\ visualization = "thermodynamics"
    /\ \/ /\ ParticlesEffect
          /\ particles'.ps = SubSeq(InitialParticles(gasVersion), 1,
                                    thermoParams.particleCount)
       \/ Tick(120)
       \/ PausedTick
       \/ TogglePause
       \/ SetHeat(0)

AppNext ==
    \/ \E sr \in ServiceResults : ClickExplain(sr)
    \/ Settle
    \/ CloseModal
    \/ \E v \in Visualizations : SetVisualization(v)
    \/ AppSetRdParams(Rate \div 10, Rate \div 100)
    \/ AppGasStep

AppSpec == AppInit /\ [][AppNext]_vars

(***************************************************************************)
(* App and the explanation service: properties                             *)
(***************************************************************************)
\* C13: with no API key, generateExplanation resolves to the advisory
\* string, never rejects, and the service is never called.
C13_NoKeyAdvisory ==
    ~apiKey =>
        /\ serviceCalls = 0
        /\ pending = <<>>
        /\ requests > 0 =>
              /\ lastOutcome.kind = "resolved"
              /\ lastOutcome.value = Advisory

\* without a key the button was clicked and the modal shows the advisory
C13_Witness ==
    /\ ~apiKey
    /\ requests > 0
    /\ isModalOpen
    /\ ~isLoadingExplanation
    /\ explanation = Advisory

\* C14: with a key, a failed service call makes generateExplanation reject
\* with the one generic error after a single call of the service, and
\* handleExplain shows the fallback message and ends the loading state.
C14_TransportFailure ==
    /\ serviceCalls <= requests
    /\ ~lastOutcome.serviceOk =>
          /\ lastOutcome.kind = "rejected"
          /\ lastOutcome.value = GenericError
          /\ lastOutcome.calls = 1
          /\ ~isLoadingExplanation => explanation = Fallback

\* a request with a key failed and the modal shows the fallback
C14_Witness ==
    /\ apiKey
    /\ ~lastOutcome.serviceOk
    /\ lastOutcome.kind = "rejected"
    /\ serviceCalls = 1
    /\ isModalOpen
    /\ ~isLoadingExplanation
    /\ explanation = Fallback

\* C15: starting a request and its settling, whether resolved or rejected,
\* leave thermoParams, rdParams, the SimulationData record and the
\* particles as they are.
C15_RequestLeavesSimulation ==
    [][ (requests' # requests \/ pending' # pending)
        => UNCHANGED <<thermoParams, rdParams, simulationData, particles>> ]_vars

\* a request was rejected while the gas was running and had emitted data
C15_Witness ==
    /\ lastOutcome.kind = "rejected"
    /\ pending = <<>>
    /\ frame.ran
    /\ Len(particles.ps) > 0
    /\ simulationData.systemState # "Initializing"

\* C16: at most one explanation request is in flight at any time.
C16_OneRequestInFlight ==
    /\ Len(pending) <= 1
    /\ pending # <<>> => isLoadingExplanation

\* a second request is in flight after the first one settled, with the
\* modal closed meanwhile
C16_Witness ==
    /\ requests = 2
    /\ Len(pending) = 1
    /\ lastOutcome.kind # "none"
    /\ ~isModalOpen

(***************************************************************************)
(* Thermodynamic gas: the emitted metrics                                  *)
(***************************************************************************)
\* C17: the emitted entropyProduction is
\* max(0, energyIn / max(0.1, tempHot) - energyOut / max(0.1, tempCold)),
\* tempHot being the last gradient value, or 1 if that is zero, and
\* tempCold the first gradient value, or 0.1 if that is zero.
C17_EntropyEstimate ==
    frame.ran =>
        LET g    == simulationData.temperatureGradient
            hot  == IF g[SLICES] = 0 THEN Micro ELSE g[SLICES]
            cold == IF g[1] = 0 THEN Micro \div 10 ELSE g[1]
            perMilli == Milli \div EnergyPerMicro
        IN  simulationData.entropyProduction =
                Max(0,   RoundDiv(frame.energyIn * perMilli, Max(Micro \div 10, hot))
                       - RoundDiv(frame.energyOut * perMilli, Max(Micro \div 10, cold)))

\* a tick injected energy at the hot wall and emitted a positive estimate
C17_Witness ==
    /\ frame.ran
    /\ frame.energyIn > 0
    /\ simulationData.entropyProduction > 0

\* a tick exchanged energy at a wall while the hot slice held a particle
C17_WitnessHotSlice ==
    /\ frame.ran
    /\ frame.energyIn + frame.energyOut > 0
    /\ simulationData.temperatureGradient[SLICES] > 0

\* a tick drained energy at the cold wall and the negative difference was
\* emitted as 0
C17_WitnessClamped ==
    /\ frame.ran
    /\ frame.energyOut > 0
    /\ frame.entropyProduction < 0
    /\ simulationData.entropyProduction = 0

\* ---- the temperature gradient ----

\* Slice k of SLICES equal slices of the X domain [-BOX_SIZE/2, +BOX_SIZE/2],
\* cold wall first; the last slice ends at the hot wall and includes it.
SliceWidth(ver) == BOX_SIZE(ver) \div SLICES

LiesInSlice(p, k, ver) ==
    LET lo == (k - 1) * SliceWidth(ver) - halfBox(ver)
        hi == k * SliceWidth(ver) - halfBox(ver)
    IN  /\ lo <= p.px
        /\ (p.px < hi \/ (k = SLICES /\ p.px = hi))

SliceMembers(ps, k, ver) == {i \in 1..Len(ps) : LiesInSlice(ps[i], k, ver)}

SliceMean(ps, k, ver) ==
    LET m == SliceMembers(ps, k, ver)
    IN  IF m = {} THEN 0
        ELSE RoundDiv(SumSeq([i \in 1..Len(ps) |-> IF i \in m THEN lengthSq(ps[i]) ELSE 0]),
                      Cardinality(m) * EnergyPerMicro)

\* C18: after every running frame, slice k of the emitted temperature gradient
\* is the mean squared speed of the particles whose post-step X lies in slice k
\* (0 for a slice holding none), slices ordered from the cold to the hot wall.
C18_GradientIsSliceMean ==
    [][(ticks' = ticks + 1 /\ frame'.ran) =>
          /\ Len(simulationData'.temperatureGradient) = SLICES
          /\ \A k \in 1..SLICES :
                simulationData'.temperatureGradient[k] =
                    SliceMean(particles'.ps, k, gasVersion)]_vars

\* The same statement for the slices that do not end at the hot wall.
C18_InteriorSlices ==
    [][(ticks' = ticks + 1 /\ frame'.ran) =>
          /\ Len(simulationData'.temperatureGradient) = SLICES
          /\ \A k \in 1..(SLICES - 1) :
                simulationData'.temperatureGradient[k] =
                    SliceMean(particles'.ps, k, gasVersion)]_vars

\* A particle rests on the hot wall after a running frame and the emitted
\* hot slice reads 0.
C18_OnHotWall ==
    /\ frame.ran
    /\ \E i \in 1..Len(particles.ps) : particles.ps[i].px = halfBox(gasVersion)
    /\ simulationData.temperatureGradient[SLICES] = 0

\* ---- the hot wall ----

\* heat * k1 as a velocity, k1 in tenths
HotKick(heat, k1Tenths) == RoundDiv(heat * Lu * k1Tenths, 10 * Milli)

\* k1 (tenths) and the gain factor (hundredths) the rule may use: any k1 the
\* revisions use, any gain in (1, 1.2]
K1Choices == {1, 10}
GainChoices == 101..120

\* The particle crosses +BOX_SIZE/2 in a frame of length d.
CrossesHotWall(p, d, ver) == p.px + p.vx * d > halfBox(ver)

\* q is p after the hot-wall rule: on the wall, vx reflected and pushed by
\* sign(vx) * heat * k1, then the whole velocity scaled by a gain above 1
\* (the Y and Z walls may still flip vy and vz in the same frame).
FollowsHotWallRule(p, q, heat, ver) ==
    /\ q.px = halfBox(ver)
    /\ \E k1 \in K1Choices, g \in GainChoices :
          LET fx == -p.vx
              wx == fx + Sign(fx) * HotKick(heat, k1)
          IN  /\ q.vx = RoundDiv(wx * g, 100)
              /\ Abs(q.vy) = Abs(RoundDiv(p.vy * g, 100))
              /\ Abs(q.vz) = Abs(RoundDiv(p.vz * g, 100))

HotWallStep(ver) ==
    (ticks' = ticks + 1 /\ frame'.ran /\ gasVersion = ver) =>
        LET ps  == particles.ps
            qs  == particles'.ps
            hit == {i \in 1..Len(ps) : CrossesHotWall(ps[i], frame'.delta, gasVersion)}
        IN  /\ \A i \in hit : FollowsHotWallRule(ps[i], qs[i], frame'.heat, gasVersion)
            /\ frame'.energyIn =
                   SumSeq([i \in 1..Len(ps) |->
                             IF i \in hit THEN lengthSq(qs[i]) - lengthSq(ps[i]) ELSE 0])

\* C20: a particle whose x exceeds +BOX_SIZE/2 in a frame has vx flipped, x set
\* to +BOX_SIZE/2, sign(vx) * heat * k1 added to vx and the whole velocity
\* multiplied by a gain factor above 1; energyIn of the frame is the sum of the
\* resulting increases of speed squared.
C20_HotWallRule == [][HotWallStep(1) /\ HotWallStep(2)]_vars

\* The rule as the first revision of the scene implements it.
C20_HotWallRuleFirstRevision == [][HotWallStep(1)]_vars

\* A frame of the second revision in which a particle met the hot wall.
C20_HotHitSecondRevision ==
    /\ gasVersion = 2
    /\ frame.ran
    /\ frame.energyIn > 0

C20_HotHitFirstRevision ==
    /\ gasVersion = 1
    /\ frame.ran
    /\ frame.energyIn > 0

\* ---- the speed of a particle over many frames ----

\* The largest heat the Heat Input slider gives (0.2), in Milli
HeatMax == 200

\* |(Math.random() - 0.5) * 0.1| <= 0.05 for each velocity component, in Lu
InitialSpeedMax == 500

\* What one round trip between the walls leaves of vx.  A particle leaves
\* the hot wall with vx < 0 and the cold wall with vx > 0, so hits alternate.
\* Revision 2: |vx| -> 0.95 * (|vx| + heat), which stays at or below
\* 19 * heat on the way to the hot wall and 20 * heat on the way back.
\* Revision 1: |vx| -> 0.9 * 1.01 * (|vx| + 0.1 * heat), which stays at or
\* below 10 * (0.1 * heat) on the way to the hot wall.
VxTowardHot(ver) ==
    IF ver = 1 THEN 10 * HotKick(HeatMax, 1) ELSE 19 * HotKick(HeatMax, 10)

VxTowardCold(ver) ==
    IF ver = 1
    THEN RoundDiv(101 * (VxTowardHot(1) + HotKick(HeatMax, 1)), 100)
    ELSE VxTowardHot(2) + HotKick(HeatMax, 10)

\* vy and vz change sign at their walls and are scaled at the X walls only.
VyzTowardHot == InitialSpeedMax

VyzTowardCold(ver) ==
    IF ver = 1 THEN RoundDiv(101 * InitialSpeedMax, 100) ELSE InitialSpeedMax

\* The square of the bound on the speed
SpeedSqBound(ver) ==
    VxTowardCold(ver) * VxTowardCold(ver)
    + 2 * VyzTowardCold(ver) * VyzTowardCold(ver)

\* Particles after many frames at the largest heat: at the limits of the
\* round trip, half way to them, next to either wall and in the middle.
WarmParticles(ver) ==
    LET h == halfBox(ver)
        a == VxTowardHot(ver)
        b == VxTowardCold(ver)
        c == VyzTowardHot
        d == VyzTowardCold(ver)
    IN  { [px |-> h - 100, py |-> 0,       pz |-> 0,       vx |-> a,         vy |-> c,  vz |-> -c],
          [px |-> 0,       py |-> h - 100, pz |-> 0,       vx |-> a,         vy |-> c,  vz |-> 0],
          [px |-> 100 - h, py |-> 0,       pz |-> 0,       vx |-> -b,        vy |-> d,  vz |-> d],
          [px |-> 0,       py |-> 0,       pz |-> 100 - h, vx |-> -b,        vy |-> 0,  vz |-> -d],
          [px |-> h - 100, py |-> 0,       pz |-> 0,       vx |-> a \div 2,  vy |-> -c, vz |-> 0],
          [px |-> 100 - h, py |-> 0,       pz |-> 0,       vx |-> -(b \div 2), vy |-> 0, vz |-> c] }

\* The scene with one particle, fresh from the effect or after it has run
\* for a while (particles do not interact, so one stands for each of many)
GasWarm ==
    /\ gasVersion \in {1, 2}
    /\ \E heat \in HeatChoices :
          thermoParams = [particleCount |-> 1, heat |-> heat, isPaused |-> FALSE]
    /\ \E w \in WarmParticles(gasVersion)
                  \cup {InitialParticles(gasVersion)[i] : i \in 1..Len(InitialParticles(gasVersion))} :
          particles = [ps |-> <<w>>, effectPending |-> FALSE]
    /\ simulationData = EmittedData(thermoParams.heat,
                                    temperatureGradient(particles.ps, gasVersion), 0)
    /\ frame = NoFrame
    /\ ticks = 0

SpeedInit ==
    /\ GasMounted \/ GasWarm
    /\ BoidsUnmounted
    /\ RdUnmounted
    /\ AppIdle("thermodynamics")

\* A (re)allocation here takes the first draws of InitialParticles.
FirstDraws ==
    particles'.ps = SubSeq(InitialParticles(gasVersion), 1, thermoParams'.particleCount)

SpeedNext ==
    \/ ParticlesEffect /\ FirstDraws
    \/ \E d \in DeltaChoices : Tick(d)
    \/ PausedTick
    \/ \E h \in HeatChoices : SetHeat(h)
    \/ TogglePause
    \/ \E n \in ParticleCounts : SetParticleCount(n) /\ FirstDraws

SpeedSpec == SpeedInit /\ [][SpeedNext]_vars

\* C19: for heat within [0, 0.2] and any sequence of frames the speed of
\* every particle stays at or below one fixed bound.
C19_SpeedBounded ==
    \A i \in 1..Len(particles.ps) :
        lengthSq(particles.ps[i]) <= SpeedSqBound(gasVersion)

\* The bound by direction of travel, which every frame preserves.
C19_RoundTripBound ==
    \A i \in 1..Len(particles.ps) :
        LET p == particles.ps[i]
        IN  /\ p.vx > 0 => /\ p.vx <= VxTowardHot(gasVersion)
                           /\ Abs(p.vy) <= VyzTowardHot
                           /\ Abs(p.vz) <= VyzTowardHot
            /\ p.vx < 0 => /\ -p.vx <= VxTowardCold(gasVersion)
                           /\ Abs(p.vy) <= VyzTowardCold(gasVersion)
                           /\ Abs(p.vz) <= VyzTowardCold(gasVersion)

\* A frame at the largest heat has just pushed a particle at the hot wall
\* to the limit of its round trip.
C19_Witness ==
    /\ frame.ran
    /\ frame.heat = HeatMax
    /\ frame.energyIn > 0
    /\ \E i \in 1..Len(particles.ps) :
          /\ particles.ps[i].px = halfBox(gasVersion)
          /\ -particles.ps[i].vx = VxTowardCold(gasVersion)

\* A frame has just damped a particle at the cold wall from that limit.
C19_WitnessCold ==
    /\ frame.ran
    /\ frame.energyOut > 0
    /\ \E i \in 1..Len(particles.ps) :
          /\ particles.ps[i].px = -halfBox(gasVersion)
          /\ particles.ps[i].vx = VxTowardHot(gasVersion)

-----------------------------------------------------------------------------
(* Reaction-diffusion: the update law                                      *)

Orthogonal == << <<0, 1>>, <<0, -1>>, <<1, 0>>, <<-1, 0>> >>
Diagonal == << <<1, 1>>, <<-1, 1>>, <<1, -1>>, <<-1, -1>> >>

\* the cell at an offset from c, the edge cell repeated beyond the edge
Neighbour(grid, c, o) ==
    grid[<<Max(0, Min(GridSize - 1, c[1] + o[1])),
           Max(0, Min(GridSize - 1, c[2] + o[2]))>>]

\* Lap of a channel at c, times 100: 0.2 on the orthogonal neighbours,
\* 0.05 on the diagonal ones, -1 on the cell
Lap(grid, c, ch) ==
      20 * SumSeq([k \in 1..4 |-> Neighbour(grid, c, Orthogonal[k])[ch]])
    + 5 * SumSeq([k \in 1..4 |-> Neighbour(grid, c, Diagonal[k])[ch]])
    - 100 * grid[c][ch]

\* The Gray-Scott law for the cell c: rates in Rate, values in Cs, the
\* bracket over the common denominator Cs * Cs.
GrayScott(grid, c, feed, kill, step) ==
    LET u == grid[c].u
        v == grid[c].v
        perRate == (Cs * Cs) \div Rate
        du == 16 * 100 * Lap(grid, c, "u") - u * v * v + perRate * feed * (Cs - u)
        dv == 8 * 100 * Lap(grid, c, "v") + u * v * v - perRate * (feed + kill) * v
    IN  [u |-> Max(0, Min(Cs, u + RoundHalfUp(du * step, Cs * Cs))),
         v |-> Max(0, Min(Cs, v + RoundHalfUp(dv * step, Cs * Cs)))]

GrayScottStep(builds) ==
    (rdPc = "render" /\ rdPc' = "swap" /\ rdBuild \in builds) =>
        \A c \in Cells :
            fbo'[renderTarget][c] =
                GrayScott(fbo[uTexture], c, uFeed(rdBuild, rdParams),
                          uKill(rdBuild, rdParams), 1)

\* C21: every sub-step of a reaction-diffusion stepper writes, for every
\* cell, clamp01(u + (0.16 Lap(u) - u v v + feed (1 - u)) dt) and
\* clamp01(v + (0.08 Lap(v) + u v v - (feed + kill) v) dt), Lap being the
\* nine-point sum with weights 0.2, 0.05 and -1.
C21_GrayScottLaw == [][GrayScottStep({"rdNew", "rdOld"})]_vars

\* The law as the older revision of the stepper implements it.
C21_GrayScottLawOlderRevision == [][GrayScottStep({"rdOld"})]_vars

\* A sub-step of the newer revision has written a grid that is not the
\* law's: every channel 0, where the law keeps u at 1 away from the seed.
C21_NewerRevisionWritesNothing ==
    /\ rdBuild = "rdNew"
    /\ rdPc = "swap"
    /\ fbo[renderTarget] = ClearedGrid
    /\ \E c \in Cells : fbo[uTexture][c].u = Cs

\* A sub-step of the older revision has changed both channels of a cell.
C21_OlderRevisionSteps ==
    /\ rdBuild = "rdOld"
    /\ rdPc = "swap"
    /\ \E c \in Cells :
          /\ fbo[renderTarget][c].u # fbo[uTexture][c].u
          /\ fbo[renderTarget][c].v # fbo[uTexture][c].v
          /\ fbo[renderTarget][c].v \in 1..(Cs - 1)

-----------------------------------------------------------------------------
(* Boids: the separation force                                             *)

\* the other boids at distance d with 0 < d < SEPARATION_DISTANCE
Close(bs, i) ==
    {j \in DOMAIN bs :
        LET diff == subVectors(bs[i].position, bs[j].position)
        IN  /\ j # i
            /\ vecLengthSq(diff) > 0
            /\ Abs(diff.x) < SEPARATION_DISTANCE
            /\ Abs(diff.y) < SEPARATION_DISTANCE
            /\ Abs(diff.z) < SEPARATION_DISTANCE
            /\ vecLengthSq(diff) < SEPARATION_DISTANCE * SEPARATION_DISTANCE}

\* (self - other) / d^power in 1/1000, d the distance in world units
PushOverPower(selfPos, otherPos, power) ==
    LET diff == subVectors(selfPos, otherPos)
        d2   == vecLengthSq(diff)
        num(c) == IF power = 2 THEN c * Bu * Milli ELSE c * Milli
        den    == IF power = 2 THEN d2 ELSE ISqrt(d2)
    IN  Vec(TruncDiv(num(diff.x), den), TruncDiv(num(diff.y), den),
            TruncDiv(num(diff.z), den))

SeparationIs(power) ==
    \A i \in DOMAIN boids :
        separation(boids, i) =
            SumVec([j \in Close(boids, i) |->
                      PushOverPower(boids[i].position, boids[j].position, power)])

\* C22 as stated: the separation vector is the sum of
\* (self.position - other.position) / d over the other boids at distance d
\* with 0 < d < SEPARATION_DISTANCE.
C22_SeparationOverDistance == SeparationIs(1)

\* C22 as the code has it: the sum of (self.position - other.position) / d^2,
\* the unit vector away from the other boid divided by d.
C22_SeparationOverDistanceSquared == SeparationIs(2)

\* After a tick a boid has two others within SEPARATION_DISTANCE, at
\* different distances, and its separation vector is not zero.
C22_Witness ==
    /\ boidFrames > 0
    /\ \E i \in DOMAIN boids :
          /\ separation(boids, i) # ZeroVec
          /\ \E j, k \in Close(boids, i) :
                vecLengthSq(subVectors(boids[i].position, boids[j].position))
                  # vecLengthSq(subVectors(boids[i].position, boids[k].position))

-----------------------------------------------------------------------------
(* BZ: the excitation pulse                                                *)

\* the centre of cell c lies within distance 0.02 of the coordinate uv
Within(c, uv) ==
    LET dx == (100 * c[1] + 50) - uv.x
        dy == (100 * c[2] + 50) - uv.y
    IN  /\ 50 * Abs(dx) < UvUnit
        /\ 50 * Abs(dy) < UvUnit
        /\ 2500 * (dx * dx + dy * dy) < UvUnit * UvUnit

BzSubStep == rdBuild = "bz" /\ rdPc = "render" /\ rdPc' = "swap"

BzFrameEnd == rdBuild = "bz" /\ rdPc = "finish" /\ rdPc' = "idle"

\* what a sub-step of BZ writes to a cell that is not forced
BzLaw(grid, c) == GrayScott(grid, c, (3 * Rate) \div 100, (6 * Rate) \div 100, 2)

\* C23 as stated: every coordinate a pointer-down has supplied since the
\* last frame forces the cells within 0.02 of it to u = 1 in each sub-step
\* of the next frame; the frame clears the excite point, and a frame with no
\* pointer-down before it forces no cell.
C23_EveryPointerDownExcites ==
    [][ /\ BzSubStep =>
              /\ \A uv \in pointerDowns : \A c \in Cells :
                    Within(c, uv) => fbo'[renderTarget][c].u = Cs
              /\ pointerDowns = {} =>
                    \A c \in Cells : fbo'[renderTarget][c] = BzLaw(fbo[uTexture], c)
        /\ BzFrameEnd => mouse' = NoMouse /\ pointerDowns' = {}
      ]_vars

\* C23 as the code has it: the excite point is the coordinate of the last
\* pointer-down before the frame.  A sub-step forces the cells within 0.02 of
\* it to u = 1 and steps every other cell by the law; the frame clears the
\* point, and a frame with no pointer-down before it forces no cell.
C23_LastPointerDownExcites ==
    [][ /\ BzSubStep =>
              /\ \A c \in Cells :
                    IF mouse.x > 0 /\ Within(c, mouse)
                    THEN /\ fbo'[renderTarget][c].u = Cs
                         /\ fbo'[renderTarget][c].v = BzLaw(fbo[uTexture], c).v
                    ELSE fbo'[renderTarget][c] = BzLaw(fbo[uTexture], c)
              /\ pointerDowns = {} <=> mouse = NoMouse
        /\ BzFrameEnd => mouse' = NoMouse /\ pointerDowns' = {}
        /\ (rdBuild = "bz" /\ mouse' # mouse /\ mouse' # NoMouse) =>
              /\ rdPc = "idle" /\ rdPc' = "idle"
              /\ pointerDowns' = pointerDowns \cup {mouse'}
      ]_vars

\* The second sub-step of a frame has forced to u = 1 a cell the law would
\* have left below 1.
C23_Witness ==
    /\ rdBuild = "bz"
    /\ rdPc = "swap"
    /\ rdI = 1
    /\ \E c \in Cells :
          /\ Within(c, mouse)
          /\ fbo[renderTarget][c].u = Cs
          /\ BzLaw(fbo[uTexture], c).u < Cs

\* A frame after a pulse has gone by, the point is cleared, and a sub-step
\* of the following frame has stepped a cell near the old point by the law.
C23_WitnessCleared ==
    /\ rdBuild = "bz"
    /\ rdFrames = 1
    /\ rdPc = "swap"
    /\ mouse = NoMouse
    /\ fbo[renderTarget][MiddleCell].u < Cs

\* Two pointer-downs came before one frame; a sub-step has left a cell
\* within 0.02 of the first of them below 1.
C23_EarlierPulseLost ==
    /\ rdBuild = "bz"
    /\ rdPc = "swap"
    /\ \E uv \in pointerDowns, c \in Cells :
          /\ Within(c, uv)
          /\ fbo[renderTarget][c].u < Cs

-----------------------------------------------------------------------------
(* App: completion of an explanation request                               *)

\* A promise that settles runs the continuation of handleExplain: once the
\* service has answered or failed, Settle is taken.
AppLiveSpec == AppInit /\ [][AppNext]_vars /\ WF_vars(Settle)

\* the step in which a call in flight settles
CallSettles == pending # <<>> /\ Len(pending') < Len(pending)

\* C24: when the call of a triggered request settles, resolved or rejected,
\* the loading flag is false again, the button is enabled again and the text
\* shown is the service's result or the fixed fallback message; and a
\* request that is loading always gets there.
C24_SettledRequestCompletes ==
    /\ [][ CallSettles =>
              /\ isLoadingExplanation
              /\ ~isLoadingExplanation'
              /\ ExplainEnabled'
              /\ \/ Head(pending).kind = "resolved" /\ explanation' = Head(pending).value
                 \/ Head(pending).kind = "rejected" /\ explanation' = Fallback
         ]_vars
    /\ (isLoadingExplanation ~> ~isLoadingExplanation)

\* A request was rejected, the fallback is shown and the button is enabled
\* again.
C24_Witness ==
    /\ requests > 0
    /\ serviceCalls > 0
    /\ lastOutcome.kind = "rejected"
    /\ pending = <<>>
    /\ ~isLoadingExplanation
    /\ ExplainEnabled
    /\ explanation = Fallback

\* The same after a request the service answered.
C24_WitnessResolved ==
    /\ serviceCalls > 0
    /\ lastOutcome.kind = "resolved"
    /\ pending = <<>>
    /\ ExplainEnabled
    /\ explanation = lastOutcome.value

-----------------------------------------------------------------------------
(* Boids: the acceleration between ticks                                   *)

\* C25: after every update() the acceleration of the boid is the zero
\* vector, so each tick starts to accumulate its force from zero.
C25_AccelerationReset ==
    \A i \in DOMAIN boids : boids[i].acceleration = ZeroVec

\* Two ticks have run and a force has changed the velocity of a boid, whose
\* acceleration is zero again.
C25_Witness ==
    /\ boidFrames = 2
    /\ \E i \in DOMAIN boids :
          /\ boids[i].velocity \notin {b.velocity : b \in InitialBoids}
          /\ boids[i].acceleration = ZeroVec

-----------------------------------------------------------------------------
(* Thermodynamic gas: slice coverage                                       *)

\* the slices of the frame's loop a particle is counted in
SlicesOf(p, ver) == {k \in 0..(SLICES - 1) : InSlice(p, k, ver)}

RunningFrame == ticks' = ticks + 1 /\ frame'.ran

\* C26: in every unpaused tick each particle is counted in exactly one of
\* the 10 slices, so the slice counts sum to the number of particles, also
\* for a particle the tick has put on the hot or the cold wall.
C26_EveryParticleInOneSlice ==
    [][ RunningFrame =>
          /\ \A i \in 1..Len(particles'.ps) :
                Cardinality(SlicesOf(particles'.ps[i], gasVersion)) = 1
          /\ SumSeq(sliceCounts(particles'.ps, gasVersion)) = Len(particles'.ps)
      ]_vars

\* The same for the particles that are not on the hot wall.
C26_OffTheHotWall ==
    [][ RunningFrame =>
          \A i \in 1..Len(particles'.ps) :
              particles'.ps[i].px # halfBox(gasVersion) =>
                  Cardinality(SlicesOf(particles'.ps[i], gasVersion)) = 1
      ]_vars

\* A tick has put a particle on the hot wall and it is in no slice.
C26_HotWallUncounted ==
    /\ frame.ran
    /\ frame.energyIn > 0
    /\ \E i \in 1..Len(particles.ps) :
          /\ particles.ps[i].px = halfBox(gasVersion)
          /\ SlicesOf(particles.ps[i], gasVersion) = {}
    /\ SumSeq(sliceCounts(particles.ps, gasVersion)) < Len(particles.ps)

\* A tick has put a particle on the cold wall and it is in the first slice.
C26_ColdWallCounted ==
    /\ frame.ran
    /\ frame.energyOut > 0
    /\ \E i \in 1..Len(particles.ps) :
          /\ particles.ps[i].px = -halfBox(gasVersion)
          /\ SlicesOf(particles.ps[i], gasVersion) = {0}

-----------------------------------------------------------------------------
(* Reaction-diffusion and BZ: the buffer roles across frames               *)

\* the first sub-step of a frame after the first binds its buffers
FrameStart == rdPc = "idle" /\ rdPc' = "render" /\ rdFrames > 0

\* At the end of a frame displayTexture is set to the buffer the last
\* sub-step wrote.
RolesContinue(builds) ==
    (FrameStart /\ rdBuild \in builds) =>
        /\ currentFBO = displayTexture
        /\ uTexture' = displayTexture
        /\ renderTarget' # displayTexture

\* C27: at the start of every frame the buffer used as current is the one
\* the most recent sub-step wrote, also after a re-render between frames.
C27_RolesContinue == [][RolesContinue(Builds)]_vars

\* The same for the steppers with an even number of sub-steps per frame.
C27_RolesContinueEvenSubSteps == [][RolesContinue({"rdNew", "bz"})]_vars

\* After a frame of five sub-steps and a re-render, the next frame reads
\* the buffer the fourth sub-step wrote and is about to overwrite the fifth.
C27_RolledBack ==
    /\ rdBuild = "rdOld"
    /\ rdFrames = 1
    /\ rdPc = "render"
    /\ rdI = 0
    /\ uTexture = 1
    /\ renderTarget = 2
    /\ displayTexture = 2
    /\ fbo[1] # fbo[2]

\* A BZ frame starts after a pointer-down re-rendered the component, and
\* reads the buffer the last sub-step wrote.
C27_BzContinues ==
    /\ rdBuild = "bz"
    /\ rdFrames = 1
    /\ rdPc = "render"
    /\ rdI = 0
    /\ mouse # NoMouse
    /\ uTexture = displayTexture

-----------------------------------------------------------------------------
(* Thermodynamic gas: the label and the emitted estimate                   *)

\* C28: whenever the emitted systemState is 'Steady State', the emitted
\* entropyProduction is greater than 0.01.
C28_SteadyStateHasEntropy ==
    simulationData.systemState = "Steady State" =>
        simulationData.entropyProduction > EntropyThreshold

\* What holds instead: the estimate before Math.max(0, ...) is beyond 0.01
\* on either side.
C28_SteadyStateHasRawEntropy ==
    (frame.ran /\ simulationData.systemState = "Steady State") =>
        Abs(frame.entropyProduction) > EntropyThreshold

\* A frame with cold-wall losses only is labelled 'Steady State' and emits
\* the estimate 0.
C28_SteadyStateAtZero ==
    /\ frame.ran
    /\ frame.energyOut > 0
    /\ frame.entropyProduction < -EntropyThreshold
    /\ simulationData.systemState = "Steady State"
    /\ simulationData.entropyProduction = 0

-----------------------------------------------------------------------------
(* Thermodynamic gas: pause                                                *)

\* C29: a frame that runs while isPaused is set changes no particle and
\* emits nothing, so the record App holds changes only in an unpaused
\* frame; setting or clearing the flag leaves particles and record alone,
\* so stepping resumes from the particle set the pause found.
C29_PausedFrameDoesNothing ==
    [][ /\ (ticks' = ticks + 1 /\ thermoParams.isPaused) =>
              /\ particles' = particles
              /\ simulationData' = simulationData
              /\ ~frame'.ran
        /\ thermoParams'.isPaused # thermoParams.isPaused =>
              /\ particles' = particles
              /\ simulationData' = simulationData
        /\ simulationData' # simulationData =>
              /\ ~thermoParams.isPaused
              /\ frame'.ran
      ]_vars

\* After an unpaused frame that emitted a record, a frame has run during a
\* pause; the record is still there and the particles are allocated.
C29_Witness ==
    /\ thermoParams.isPaused
    /\ ticks >= 2
    /\ ~frame.ran
    /\ simulationData.systemState # "Initializing"
    /\ Len(particles.ps) > 0
    /\ \E i \in 1..Len(particles.ps) :
          particles.ps[i] \notin {InitialParticles(gasVersion)[k] : k \in 1..3}

-----------------------------------------------------------------------------
(* Boids: the order of processing within a tick                            *)

\* flock() and update() applied to the boids one after the other, in the
\* order given, each on the array as the ones before it left it
RECURSIVE ProcessInOrder(_, _, _)
ProcessInOrder(bs, order, predatorPosition) ==
    IF order = <<>> THEN bs
    ELSE LET i == Head(order)
         IN  ProcessInOrder([bs EXCEPT ![i] = update(flock(bs, i, predatorPosition))],
                            Tail(order), predatorPosition)

\* every boid stepped from the array as it was at the start of the tick
Synchronous(bs, predatorPosition) ==
    [i \in DOMAIN bs |-> update(flock(bs, i, predatorPosition))]

Orders(n) == {o \in [1..n -> 1..n] : \A i, j \in 1..n : i # j => o[i] # o[j]}

BoidsTick == boidFrames' = boidFrames + 1

\* C30: a tick steps every boid from the positions and velocities all boids
\* had at its start, so the state after the tick is the same for every
\* order of processing.
C30_SynchronousTick ==
    [][ BoidsTick =>
          /\ boids' = Synchronous(boids, predator')
          /\ \A o \in Orders(Len(boids)) :
                boids' = ProcessInOrder(boids, o, predator')
      ]_vars

\* What holds instead: the boids are stepped in array order, each seeing
\* the boids before it already moved.
C30_SequentialTick ==
    [][ BoidsTick =>
          boids' = ProcessInOrder(boids, [i \in 1..Len(boids) |-> i], predator')
      ]_vars

\* A tick has run and the next one would end differently if the boids were
\* processed last to first, and differently again if stepped synchronously.
C30_OrderMatters ==
    /\ boidFrames = 1
    /\ LET n   == Len(boids)
           fwd == ProcessInOrder(boids, [i \in 1..n |-> i], predator)
           bwd == ProcessInOrder(boids, [i \in 1..n |-> n + 1 - i], predator)
       IN  /\ fwd # bwd
           /\ fwd # Synchronous(boids, predator)

====
